---- MODULE Spec2Model ----
(***************************************************************************)
(* A model of bq_sync: the fetch decision matrix (fetch.py), the pull      *)
(* orchestrator (pull.py) and the parts of the CLI, the listers and the    *)
(* writers that the orchestrator drives.                                   *)
(*                                                                         *)
(* The world is a remote project (resources with a modification stamp), a  *)
(* local output tree (files and directories) and the git repository that   *)
(* may or may not track it.  Timestamps are integers; None is -1.          *)
(***************************************************************************)
EXTENDS Integers, Sequences, FiniteSets, TLC

VARIABLES
    remote,     \* resource -> Absent, None (no modified time) or a timestamp
    fs,         \* path -> content of the file at that path (NoFile if none)
    fs0,        \* fs as it was when the command started
    dirs,       \* the directories that exist, as paths below the output root
    head,       \* path -> content of the path in git's HEAD (NoFile if none)
    hist,       \* path -> time of the last commit touching the path, or None
    gitOK,      \* git runs and the tree is inside a repository
    ignored,    \* the output tree is covered by .gitignore
    flaky,      \* the Dataform API may fail during this run
    args,       \* the arguments of the running pull
    pc,         \* position of the pull run
    cat,        \* index (in Categories) of the category being processed
    items,      \* what is left of the listing being iterated
    log,        \* the decisions taken, in order: <<[res, file, action]>>
    written,    \* the files written by this run, in order
    listed,     \* the lister calls made by this run
    preChecks,  \* the outcomes of the precondition, one per evaluation
    exitCode,   \* None while running, 0 on completion, 1 on sys.exit(1)
    dataform,   \* the list_saved_queries call of this run: fault met, outcome
    cfg,        \* the configuration the command was started with
    rin,        \* resolve harness: the arguments of the call
    rout,       \* resolve harness: the results of the calls made so far
    inv,        \* command line: the invocation of main(), or of a function
    cpc,        \* command line: position of the command
    trace,      \* command line: what the command has done, in order
    cstatus,    \* command line: exit status (None while running)
    hin,        \* humanize_bytes: the argument
    hout,       \* humanize_bytes: the results of the calls made so far
    wcall,      \* writers: the writer called, its resource and its path
    wtree,      \* writers: the file at each path
    wdirs,      \* writers: the directories that exist
    wlog,       \* writers: outcome and file after each call made so far
    dtree,      \* discover_config: what bq_sync.toml is at each level of the chain of directories
    dcwd,       \* discover_config: the level of the working directory
    dstart,     \* discover_config: the argument start (a level, or None)
    dcur,       \* discover_config: current
    dpc,        \* discover_config: "idle", "loop", "returned" or "raised"
    dret,       \* discover_config: the level of the file returned (None if none)
    sarg,       \* pull --dataset: the value of the option
    sconf,      \* pull --dataset: the configuration loaded
    seff,       \* pull --dataset: the configuration handed to pull_project
    scalls,     \* pull --dataset: the lister calls made, in order
    swrites,    \* pull --dataset: the directories written into
    spc,        \* pull --dataset: "start", "run" or "done"
    round,      \* repeated pulls: the number of the pull command being run
    prev,       \* repeated pulls: how the previous command went
    commitAt    \* repeated pulls: time of the commit made since the last pull (None if none)

worldVars == <<remote, fs, fs0, dirs, head, hist, gitOK, ignored, flaky>>
runVars   == <<args, pc, cat, items, log, written, listed, preChecks, exitCode,
               dataform, cfg>>
cliVars   == <<inv, cpc, trace, cstatus>>
humVars   == <<hin, hout>>
\* The variables of the helpers other than the command line.
wrVars    == <<wcall, wtree, wdirs, wlog>>
discVars  == <<dtree, dcwd, dstart, dcur, dpc, dret>>
scopeVars == <<sarg, sconf, seff, scalls, swrites, spc>>
repVars   == <<round, prev, commitAt>>
otherTools == <<humVars, wrVars, discVars, scopeVars, repVars>>
toolVars  == <<cliVars, otherTools>>
harnVars  == <<rin, rout, toolVars>>
vars      == <<remote, fs, fs0, dirs, head, hist, gitOK, ignored, flaky,
               args, pc, cat, items, log, written, listed, preChecks, exitCode,
               dataform, cfg, rin, rout, toolVars>>

-----------------------------------------------------------------------------
(* Bounds and basic values *)

MaxTime == 1

None   == -1
Absent == -2
EPOCH  == 0

Times     == 0..MaxTime
OptTimes  == {None} \cup Times

FETCH == "fetch"
SKIP  == "skip"
WARN  == "warn"

-----------------------------------------------------------------------------
(* Resources, paths and file contents *)

Names      == {"a"}
\* Dataform repositories (saved queries): two, so that a listing can fail
\* with an entry already collected.
SavedNames == {"a", "b"}
Datasets   == <<"d1">>
Categories == <<"views", "routines", "tables", "externals", "scheduled", "saved">>

DatasetCats == {"views", "routines", "tables", "externals"}
ProjectCats == {"scheduled", "saved"}

Resources ==
    [cat : DatasetCats, ds : {Datasets[i] : i \in DOMAIN Datasets}, name : Names]
    \cup [cat : {"scheduled"}, ds : {""}, name : Names]
    \cup [cat : {"saved"}, ds : {""}, name : SavedNames]

\* <table_id>.sql, <table_id>.yaml
FileOf(name, ext) == name \o ext

ViewSqlPath(ds, name)   == <<ds, "views", FileOf(name, ".sql")>>
RoutineSqlPath(ds, name) == <<ds, "routines", FileOf(name, ".sql")>>
ModelPath(ds, name)     == <<ds, "models", FileOf(name, ".yaml")>>
ScheduledPath(name)     == <<"scheduled_queries", FileOf(name, ".sql")>>
SavedPath(name)         == <<"saved_queries", FileOf(name, ".sql")>>

\* A variant that asks resolve() about the model file of a view or routine.
DecisionPathByModel(r) ==
    CASE r.cat = "views"     -> ModelPath(r.ds, r.name)
      [] r.cat = "routines"  -> ModelPath(r.ds, r.name)
      [] r.cat = "tables"    -> ModelPath(r.ds, r.name)
      [] r.cat = "externals" -> ModelPath(r.ds, r.name)
      [] r.cat = "scheduled" -> ScheduledPath(r.name)
      [] r.cat = "saved"     -> SavedPath(r.name)

\* The path resolve() is asked about for a resource of each category.
DecisionPath(r) ==
    CASE r.cat = "views"     -> ViewSqlPath(r.ds, r.name)
      [] r.cat = "routines"  -> RoutineSqlPath(r.ds, r.name)
      [] r.cat = "tables"    -> ModelPath(r.ds, r.name)
      [] r.cat = "externals" -> ModelPath(r.ds, r.name)
      [] r.cat = "scheduled" -> ScheduledPath(r.name)
      [] r.cat = "saved"     -> SavedPath(r.name)

\* The files written for a fetched resource, in the order they are written.
WritePaths(r) ==
    CASE r.cat = "views"    -> <<ViewSqlPath(r.ds, r.name), ModelPath(r.ds, r.name)>>
      [] r.cat = "routines" -> <<RoutineSqlPath(r.ds, r.name), ModelPath(r.ds, r.name)>>
      [] OTHER              -> <<DecisionPath(r)>>

Paths == UNION {{WritePaths(r)[i] : i \in DOMAIN WritePaths(r)} : r \in Resources}

\* str(file): the absolute path; file.name: its last segment.
OutputRoot == <<"/", "out", "proj">>
Str(file)  == OutputRoot \o file
NameOf(file) == <<file[Len(file)]>>

NoFile == [w |-> "none", n |-> "", v |-> None]
UserContent(k) == [w |-> "user", n |-> "", v |-> k]
Contents == {UserContent(0), UserContent(1)}

-----------------------------------------------------------------------------
(* fetch.py *)

IsFile(file) == fs[file] # NoFile

\* git log -1 --format=%cI -- <file>; any failure and an empty answer are None.
GitCommittedTime(file) ==
    IF ~gitOK THEN None ELSE hist[file]

Decision(action, probes, warning) ==
    [action |-> action, probes |-> probes, warning |-> warning]

\* The rows of the decision matrix (force is off).
DecisionMatrix(bq_modified, file) ==
    LET bq_exists   == bq_modified # None
        file_exists == IsFile(file)
    IN  IF ~bq_exists /\ ~file_exists
            THEN Decision(SKIP, {"is_file"}, "")
        ELSE IF ~bq_exists /\ file_exists
            THEN Decision(WARN, {"is_file"}, "deleted_on_bq")
        ELSE IF ~file_exists
            THEN Decision(FETCH, {"is_file"}, "")
        ELSE LET committed == GitCommittedTime(file)
             IN  IF committed = None
                     THEN Decision(WARN, {"is_file", "git_log"}, "not_committed")
                 ELSE IF bq_modified <= committed
                     THEN Decision(SKIP, {"is_file", "git_log"}, "")
                 ELSE Decision(FETCH, {"is_file", "git_log"}, "bq_ahead")

\* Variants of resolve(), each with one plausible slip.
ResolveStrict(bq_modified, file, force) ==
    IF force THEN Decision(FETCH, {}, "")
    ELSE IF bq_modified # None /\ IsFile(file) /\ GitCommittedTime(file) # None
        THEN IF bq_modified < GitCommittedTime(file)
                 THEN Decision(SKIP, {"is_file", "git_log"}, "")
                 ELSE Decision(FETCH, {"is_file", "git_log"}, "bq_ahead")
    ELSE DecisionMatrix(bq_modified, file)

ResolveForceLate(bq_modified, file, force) ==
    IF bq_modified = None \/ ~force THEN DecisionMatrix(bq_modified, file)
    ELSE Decision(FETCH, {}, "")

ResolveUncommittedFetch(bq_modified, file, force) ==
    IF force THEN Decision(FETCH, {}, "")
    ELSE IF bq_modified # None /\ IsFile(file) /\ GitCommittedTime(file) = None
        THEN Decision(FETCH, {"is_file", "git_log"}, "")
    ELSE DecisionMatrix(bq_modified, file)

ResolveDeletedSkip(bq_modified, file, force) ==
    IF force THEN Decision(FETCH, {}, "")
    ELSE IF bq_modified = None /\ IsFile(file) /\ GitCommittedTime(file) # None
        THEN Decision(SKIP, {"is_file", "git_log"}, "")
    ELSE DecisionMatrix(bq_modified, file)

ResolveGitFirst(bq_modified, file, force) ==
    IF force THEN Decision(FETCH, {}, "")
    ELSE IF ~IsFile(file) /\ GitCommittedTime(file) # None
        THEN Decision(IF bq_modified = None \/ bq_modified <= GitCommittedTime(file)
                          THEN SKIP ELSE FETCH,
                      {"is_file", "git_log"}, "")
    ELSE DecisionMatrix(bq_modified, file)

ResolveDirtyAware(bq_modified, file, force) ==
    IF force THEN Decision(FETCH, {}, "")
    ELSE IF bq_modified # None /\ IsFile(file) /\ fs[file] # head[file]
        THEN Decision(WARN, {"is_file", "git_status"}, "not_committed")
    ELSE DecisionMatrix(bq_modified, file)

\* resolve(bq_modified, file, force=force)
Resolve(bq_modified, file, force) ==
    IF force THEN Decision(FETCH, {}, "")
    ELSE DecisionMatrix(bq_modified, file)

-----------------------------------------------------------------------------
(* git status, directories, writers *)

Prefixes(file) == {SubSeq(file, 1, k) : k \in 0..(Len(file) - 1)}

\* One line of `git status --porcelain` for the path: a tracked file that
\* differs from HEAD (modified or deleted), or a file git does not track
\* and does not ignore.
Porcelain(file) ==
    IF head[file] # NoFile THEN fs[file] # head[file]
    ELSE fs[file] # NoFile /\ ~ignored

\* A variant that reports a tree it cannot query as changed.
HasUncommittedChangesStrict ==
    IF ~gitOK THEN TRUE
    ELSE \E file \in Paths : Porcelain(file)

\* has_uncommitted_changes(output_root)
HasUncommittedChanges ==
    IF ~gitOK THEN FALSE
    ELSE \E file \in Paths : Porcelain(file)

\* output_root.exists()
RootExists == <<>> \in dirs

\* What each writer puts in the file: a function of the writer, the resource
\* name and the revision of the resource that was listed.
WriterOf(r, file) ==
    CASE r.cat = "views"     -> IF file = ModelPath(r.ds, r.name)
                                    THEN "write_view_model_yaml" ELSE "write_view_sql"
      [] r.cat = "routines"  -> IF file = ModelPath(r.ds, r.name)
                                    THEN "write_routine_model_yaml" ELSE "write_routine_sql"
      [] r.cat = "tables"    -> "write_model_yaml"
      [] r.cat = "externals" -> "write_external_definition"
      [] r.cat = "scheduled" -> "write_scheduled_query_sql"
      [] r.cat = "saved"     -> "write_saved_query_sql"

Rendered(item, file) ==
    [w |-> WriterOf(item.res, file), n |-> item.res.name, v |-> item.body]

\* _ensure_parent(path); path.write_text(...), for each file of the resource.
FsAfterWrite(item) ==
    [file \in Paths |->
        IF \E i \in DOMAIN WritePaths(item.res) : WritePaths(item.res)[i] = file
            THEN Rendered(item, file) ELSE fs[file]]

DirsAfterWrite(item) ==
    dirs \cup UNION {Prefixes(WritePaths(item.res)[i]) : i \in DOMAIN WritePaths(item.res)}

-----------------------------------------------------------------------------
(* bq_client.py: the listers *)

\* A variant that hands on the modification time as the API gave it.
ListedModifiedRaw(r) ==
    IF r.cat = "saved" THEN EPOCH ELSE remote[r]

\* A variant that lists a saved query with the time of its last change.
ListedModifiedSavedStamp(r) ==
    IF remote[r] = None THEN EPOCH ELSE remote[r]

\* modified=table.modified or _EPOCH; saved queries are listed with _EPOCH.
ListedModified(r) ==
    IF r.cat = "saved" THEN EPOCH
    ELSE IF remote[r] = None THEN EPOCH ELSE remote[r]

\* The order in which the API returns the resources of a category.
ListingOrder(c) == IF c = "saved" THEN <<"a", "b">> ELSE <<"a">>

\* list_views, list_routines, list_tables, list_external_tables,
\* list_scheduled_queries, list_saved_queries
Lister(call) ==
    LET At(n)   == [cat |-> call.cat, ds |-> call.ds, name |-> n]
        Here(n) == remote[At(n)] # Absent
        found   == SelectSeq(ListingOrder(call.cat), Here)
    IN  [i \in DOMAIN found |->
            [res |-> At(found[i]), modified |-> ListedModified(At(found[i])),
             body |-> remote[At(found[i])]]]

\* What can go wrong in the Dataform API during one list_saved_queries: no
\* fault, or operation op raising once `at` repositories have been gone
\* through (creating the client; fetching the next repository; listing the
\* workspaces of the next repository; reading its content.sql).
NoFault == [op |-> "none", at |-> 0]
MaxFaultAt == 1
Faults ==
    {NoFault, [op |-> "client", at |-> 0]}
    \cup [op : {"list_repositories", "list_workspaces", "read_file"}, at : 0..MaxFaultAt]

SavedCall == [cat |-> "saved", ds |-> ""]

Without(seq, k) == SubSeq(seq, 1, k - 1) \o SubSeq(seq, k + 1, Len(seq))

SavedOutcome(error, collected, result) ==
    [error |-> error, collected |-> collected, result |-> result]

\* The outer `except Exception` hands back what had been collected.
ListSavedQueriesPartial(fault) ==
    LET repos == Lister(SavedCall)
    IN  IF fault.op = "client" THEN SavedOutcome("outer", <<>>, <<>>)
        ELSE IF fault.op = "list_repositories" /\ fault.at <= Len(repos)
            THEN SavedOutcome("outer", SubSeq(repos, 1, fault.at), SubSeq(repos, 1, fault.at))
        ELSE IF fault.op \in {"list_workspaces", "read_file"} /\ fault.at < Len(repos)
            THEN SavedOutcome("inner", SubSeq(repos, 1, fault.at), Without(repos, fault.at + 1))
        ELSE SavedOutcome("none", repos, repos)

\* list_saved_queries(project, region): the outer try returns [] on any
\* exception that reaches it; the two inner ones skip the repository.
ListSavedQueries(fault) ==
    LET repos == Lister(SavedCall)
    IN  IF fault.op = "client" THEN SavedOutcome("outer", <<>>, <<>>)
        ELSE IF fault.op = "list_repositories" /\ fault.at <= Len(repos)
            THEN SavedOutcome("outer", SubSeq(repos, 1, fault.at), <<>>)
        ELSE IF fault.op \in {"list_workspaces", "read_file"} /\ fault.at < Len(repos)
            THEN SavedOutcome("inner", SubSeq(repos, 1, fault.at), Without(repos, fault.at + 1))
        ELSE SavedOutcome("none", repos, repos)

\* What the loop of the call iterates over.
Listing(call, fault) ==
    IF call.cat = "saved" THEN ListSavedQueries(fault).result ELSE Lister(call)

NotCalled == SavedOutcome("none", <<>>, <<>>)

-----------------------------------------------------------------------------
(* config.py and the configuration handling of cli.py *)

\* A configuration as the command meets it: whether --config was given,
\* whether the file is there (at the given path, or in the current directory
\* or one above it), and the keys its TOML document holds.
ConfigKeys   == {"project.id", "project.default_region", "sync.datasets", "sync.output_dir"}
RequiredKeys == {"project.id", "project.default_region", "sync.datasets"}

GoodConfig == [given |-> FALSE, exists |-> TRUE, keys |-> ConfigKeys]
ConfigCases ==
    {GoodConfig}
    \cup {[given |-> g, exists |-> FALSE, keys |-> {}] : g \in BOOLEAN}
    \cup {[given |-> g, exists |-> TRUE, keys |-> ConfigKeys \ {k}] :
            g \in BOOLEAN, k \in RequiredKeys}

\* A variant in which a missing default_region is not an error.
LoadConfigLenient(c) ==
    IF ~c.exists THEN "FileNotFoundError"
    ELSE IF (RequiredKeys \ {"project.default_region"}) \subseteq c.keys THEN "ok"
    ELSE "KeyError"

\* load_config(path): path.open raises FileNotFoundError; raw[...] raises
\* KeyError; output_dir has a default.
LoadConfig(c) ==
    IF ~c.exists THEN "FileNotFoundError"
    ELSE IF RequiredKeys \subseteq c.keys THEN "ok"
    ELSE "KeyError"

\* _resolve_config(args): discover_config's FileNotFoundError is caught and
\* turned into sys.exit(1); what load_config raises is not caught.
ResolveConfig(c) ==
    IF ~c.given /\ ~c.exists THEN "SystemExit" ELSE LoadConfig(c)

\* The exit status of the process: 1 for sys.exit(1) and for an exception
\* nobody catches alike.
ExitStatus(outcome) == IF outcome = "ok" THEN 0 ELSE 1

-----------------------------------------------------------------------------
(* pull.py *)

ShouldProcessAlways(file, force_files) == TRUE

\* _should_process(file, force_files)
ShouldProcess(file, force_files) ==
    IF ~force_files.given THEN TRUE
    ELSE \/ \E i \in DOMAIN force_files.list : force_files.list[i] = Str(file)
         \/ \E i \in DOMAIN force_files.list : force_files.list[i] = NameOf(file)

\* The lister calls of pull_project, in order: the four of pull_dataset for
\* each configured dataset, then scheduled and saved queries.
RECURSIVE DatasetCalls(_)
DatasetCalls(datasets) ==
    IF datasets = <<>> THEN <<>>
    ELSE << [cat |-> "views", ds |-> Head(datasets)],
            [cat |-> "routines", ds |-> Head(datasets)],
            [cat |-> "tables", ds |-> Head(datasets)],
            [cat |-> "externals", ds |-> Head(datasets)] >>
         \o DatasetCalls(Tail(datasets))

Plan ==
    DatasetCalls(Datasets)
    \o << [cat |-> "scheduled", ds |-> ""], [cat |-> "saved", ds |-> ""] >>

NoForceFiles == [given |-> FALSE, list |-> <<>>]
ForceFileStrings ==
    {<<"a.sql">>, Str(ModelPath("d1", "a"))}
ForceFileChoices ==
    {NoForceFiles} \cup {[given |-> TRUE, list |-> <<x>>] : x \in ForceFileStrings}

ArgChoices ==
    [force : BOOLEAN, dry_run : BOOLEAN, force_files : ForceFileChoices]

IdleArgs == [force |-> FALSE, dry_run |-> FALSE, force_files |-> NoForceFiles]

\* pull_project, up to its first lister call: the precondition, once.
PullProjectNoExit(a) ==
    /\ pc = "idle"
    /\ args' = a
    /\ preChecks' = Append(preChecks, RootExists /\ HasUncommittedChanges)
    /\ pc' = "run"
    /\ UNCHANGED <<cat, items, log, written, listed, exitCode, dataform, worldVars, harnVars>>

PullProject(a) ==
    /\ pc = "idle"
    /\ args' = a
    /\ preChecks' = Append(preChecks, RootExists /\ HasUncommittedChanges)
    /\ IF RootExists /\ HasUncommittedChanges
           THEN pc' = "exit" /\ exitCode' = 1
           ELSE pc' = "run" /\ UNCHANGED exitCode
    /\ UNCHANGED <<cat, items, log, written, listed, dataform, worldVars, harnVars>>

\* _handle_pull(args): the configuration, then pull_project.
HandlePull(a, c) ==
    /\ pc = "idle"
    /\ cfg' = c
    /\ IF ResolveConfig(c) = "ok"
           THEN PullProject(a)
           ELSE /\ pc' = "exit"
                /\ exitCode' = ExitStatus(ResolveConfig(c))
                /\ UNCHANGED <<args, cat, items, log, written, listed, preChecks,
                               dataform, worldVars, harnVars>>

\* The index of the first lister call after call c that returns something,
\* or of the last call when none does: a loop over an empty listing runs no
\* iteration, so the calls up to there follow each other directly.
RECURSIVE NextListing(_)
NextListing(c) ==
    IF c >= Len(Plan) THEN Len(Plan)
    ELSE IF Lister(Plan[c + 1]) # <<>> THEN c + 1
    ELSE NextListing(c + 1)

\* for x in bq_client.list_...(...): the lister calls made from the end of
\* one loop to the first iteration of the next loop that has one.  The call
\* of list_saved_queries, the last of the plan, meets any one fault of a
\* flaky Dataform API.
ListNext ==
    /\ pc = "run" /\ items = <<>> /\ cat < Len(Plan)
    /\ LET next == NextListing(cat)
       IN  \E fault \in (IF flaky /\ next = Len(Plan) THEN Faults ELSE {NoFault}) :
              /\ cat' = next
              /\ listed' = listed \o SubSeq(Plan, cat + 1, next)
              /\ items' = Listing(Plan[next], fault)
              /\ dataform' = IF Plan[next].cat = "saved"
                                 THEN ListSavedQueries(fault) ELSE dataform
    /\ UNCHANGED <<args, pc, log, written, preChecks, exitCode, cfg, worldVars, harnVars>>

\* One iteration of a loop of pull_dataset, pull_scheduled_queries or
\* pull_saved_queries, in which the actions of writingActions reach the
\* writers and the others `continue`.
Iteration(writingActions) ==
    /\ pc = "run" /\ items # <<>>
    /\ LET item      == Head(items)
           path      == DecisionPath(item.res)
           is_forced == args.force /\ ShouldProcess(path, args.force_files)
           decision  == Resolve(item.modified, path, is_forced)
           writes    == decision.action \in writingActions /\ ~args.dry_run
       IN  /\ log' = Append(log, [res |-> item.res, modified |-> item.modified,
                                  file |-> path, forced |-> is_forced,
                                  action |-> decision.action])
           /\ fs' = IF writes THEN FsAfterWrite(item) ELSE fs
           /\ dirs' = IF writes THEN DirsAfterWrite(item) ELSE dirs
           /\ written' = IF writes THEN written \o WritePaths(item.res) ELSE written
    /\ items' = Tail(items)
    /\ UNCHANGED <<args, pc, cat, listed, preChecks, exitCode, dataform, cfg,
                   remote, fs0, head, hist, gitOK, ignored, flaky, harnVars>>

ProcessItemWarnWrites == Iteration({FETCH, WARN})

\* if action == SKIP: continue; if action == WARN: continue; write.
ProcessItem == Iteration({FETCH})

\* logger.info("Pull complete."); main returns.
PullComplete ==
    /\ pc = "run" /\ items = <<>> /\ cat = Len(Plan)
    /\ pc' = "done"
    /\ exitCode' = 0
    /\ UNCHANGED <<args, cat, items, log, written, listed, preChecks, dataform, cfg,
                   worldVars, harnVars>>

-----------------------------------------------------------------------------
(* The worlds a pull may start in *)

\* The remote resources and the paths of the work tree that are not absent
\* number at most MaxItems together.
MaxItems == 2

\* Tables, views and external tables of a dataset share one namespace.
TableCats == {"views", "tables", "externals"}
NamespaceOK(S) ==
    \A r1, r2 \in S :
        (r1.cat \in TableCats /\ r2.cat \in TableCats
            /\ r1.ds = r2.ds /\ r1.name = r2.name) => r1 = r2

\* A path of the work tree that is not absent is in one of these states:
\* untracked; committed at t and unchanged; committed at t and edited since.
FileStates ==
    {[fs |-> UserContent(0), head |-> NoFile, hist |-> None]}
    \cup {[fs |-> UserContent(0), head |-> UserContent(0), hist |-> t] : t \in Times}
    \cup {[fs |-> UserContent(1), head |-> UserContent(0), hist |-> t] : t \in Times}

HarnessFile == ViewSqlPath("d1", "a")

\* No command other than the one under study is running.
NoInvocation ==
    [command |-> "none", verbose |-> FALSE, model |-> <<>>, format |-> "csv",
     output_dir |-> FALSE, cfg |-> GoodConfig]

IdleCli ==
    /\ inv = NoInvocation
    /\ cpc = "start"
    /\ trace = <<>>
    /\ cstatus = None

\* A byte count, or None: a sign and the digits of the magnitude in base
\* 1024, least significant first, without leading zeros.
NoBytes == [none |-> TRUE, neg |-> FALSE, digits |-> <<>>]
Bytes(neg, digits) == [none |-> FALSE, neg |-> neg, digits |-> digits]

IdleHumanize ==
    /\ hin = NoBytes
    /\ hout = <<>>

\* The paths of the writers' harness: the one written and another one.
WPaths == {"out/a", "out/b"}
AbsentFile == [exists |-> FALSE, text |-> <<>>]

IdleWriters ==
    /\ wcall = [writer |-> "none"]
    /\ wtree = [p \in WPaths |-> AbsentFile]
    /\ wdirs = {}
    /\ wlog = <<>>

IdleDiscover ==
    /\ dtree = <<"none">>
    /\ dcwd = 0
    /\ dstart = None
    /\ dcur = 0
    /\ dpc = "idle"
    /\ dret = None

\* args.dataset: None when the option is not given.
NoDataset == [given |-> FALSE, value |-> ""]
SyncConfig(project, datasets, output_dir) ==
    [project |-> project, datasets |-> datasets, output_dir |-> output_dir]

IdleScope ==
    /\ sarg = NoDataset
    /\ sconf = SyncConfig("p", <<>>, ".")
    /\ seff = SyncConfig("p", <<>>, ".")
    /\ scalls = <<>>
    /\ swrites = {}
    /\ spc = "start"

\* No command has been run before this one.
NoPrev == [pc |-> "none", force |-> FALSE, dry_run |-> FALSE, log |-> <<>>,
           written |-> <<>>, commitAt |-> None, clean |-> TRUE]

IdleRepeat ==
    /\ round = 1
    /\ prev = NoPrev
    /\ commitAt = None

IdleOtherTools == IdleHumanize /\ IdleWriters /\ IdleDiscover /\ IdleScope /\ IdleRepeat

IdleTools == IdleCli /\ IdleOtherTools

IdleRun ==
    /\ args = IdleArgs
    /\ pc = "idle"
    /\ cat = 0
    /\ items = <<>>
    /\ log = <<>>
    /\ written = <<>>
    /\ listed = <<>>
    /\ preChecks = <<>>
    /\ exitCode = None
    /\ dataform = NotCalled
    /\ cfg = GoodConfig

\* The worlds with a second saved query, and those where Dataform is
\* flaky, are explored for projects holding project-level resources only.
ProjectOnly(S, F) ==
    /\ \A r \in S : r.cat \in ProjectCats
    /\ \A file \in F : \E r \in Resources : r.cat \in ProjectCats /\ DecisionPath(r) = file

SecondSaved(S, F) ==
    \/ \E r \in S : r.cat = "saved" /\ r.name # "a"
    \/ \E r \in Resources : r.cat = "saved" /\ r.name # "a" /\ DecisionPath(r) \in F

\* A pull starts in any such remote project and work tree.  Outside a
\* repository (or without a git binary) nothing is tracked; .gitignore is
\* only told apart when some file is untracked; the output root may exist
\* while empty.
Init ==
    /\ flaky \in BOOLEAN
    /\ \E S \in SUBSET Resources :
          /\ Cardinality(S) <= MaxItems
          /\ NamespaceOK(S)
          /\ \E stamp \in [S -> OptTimes] :
                remote = [r \in Resources |-> IF r \in S THEN stamp[r] ELSE Absent]
          /\ \E F \in SUBSET Paths :
                /\ Cardinality(S) + Cardinality(F) <= MaxItems
                /\ (flaky \/ SecondSaved(S, F)) => ProjectOnly(S, F)
                /\ \E st \in [F -> FileStates] :
                      /\ fs = [file \in Paths |-> IF file \in F THEN st[file].fs ELSE NoFile]
                      /\ head = [file \in Paths |-> IF file \in F THEN st[file].head ELSE NoFile]
                      /\ hist = [file \in Paths |-> IF file \in F THEN st[file].hist ELSE None]
                /\ \E rootThere \in BOOLEAN :
                      /\ dirs = UNION {Prefixes(file) : file \in F}
                                \cup (IF rootThere THEN {<<>>} ELSE {})
                      /\ (F # {} => rootThere)
    /\ fs0 = fs
    /\ gitOK \in BOOLEAN
    /\ ignored \in BOOLEAN
    /\ (~gitOK => \A file \in Paths : head[file] = NoFile)
    /\ (ignored => gitOK /\ \E file \in Paths : fs[file] # NoFile /\ head[file] = NoFile)
    /\ IdleRun
    /\ IdleTools
    /\ rin = [bq_modified |-> None, file |-> HarnessFile, force |-> FALSE]
    /\ rout = <<>>

Next ==
    \/ \E a \in ArgChoices, c \in ConfigCases : HandlePull(a, c)
    \/ ListNext
    \/ ProcessItem
    \/ PullComplete

Spec == Init /\ [][Next]_vars

-----------------------------------------------------------------------------
(* The resolve harness: resolve() called on arbitrary arguments, as the    *)
(* unit tests of TestResolve do, against an arbitrary state of one file.   *)

InitResolve ==
    /\ remote = [r \in Resources |-> Absent]
    /\ \E c \in {NoFile, UserContent(0)}, t \in OptTimes, tracked \in BOOLEAN :
          /\ fs = [p \in Paths |-> IF p = HarnessFile THEN c ELSE NoFile]
          /\ hist = [p \in Paths |-> IF p = HarnessFile THEN t ELSE None]
          /\ head = [p \in Paths |->
                        IF p = HarnessFile /\ t # None /\ tracked
                            THEN UserContent(0) ELSE NoFile]
          /\ dirs = IF c = NoFile THEN {<<>>}
                    ELSE {SubSeq(HarnessFile, 1, k) : k \in 0..(Len(HarnessFile) - 1)}
    /\ fs0 = fs
    /\ gitOK \in BOOLEAN
    /\ ignored \in BOOLEAN
    /\ flaky = FALSE
    /\ IdleRun
    /\ IdleTools
    /\ rin \in [bq_modified : OptTimes, file : {HarnessFile}, force : BOOLEAN]
    /\ rout = <<>>

\* One call of resolve(bq_modified, file, force=force).
ResolveCall ==
    /\ Len(rout) < 2
    /\ rout' = Append(rout, Resolve(rin.bq_modified, rin.file, rin.force))
    /\ UNCHANGED <<rin, worldVars, runVars, toolVars>>

\* Between two calls the user edits the file in place: its content changes,
\* its presence and its commit history do not.
EditInPlace ==
    /\ Len(rout) = 1
    /\ fs[rin.file] = UserContent(0)
    /\ fs' = [fs EXCEPT ![rin.file] = UserContent(1)]
    /\ UNCHANGED <<remote, fs0, dirs, head, hist, gitOK, ignored, flaky, runVars, harnVars>>

NextResolve == ResolveCall \/ EditInPlace

SpecResolve == InitResolve /\ [][NextResolve]_vars

-----------------------------------------------------------------------------
(* The other commands of cli.py: push and fetch.  They run with no pull in  *)
(* progress, on an empty project and an empty work tree.                    *)

EmptyWorld ==
    /\ remote = [r \in Resources |-> Absent]
    /\ fs = [file \in Paths |-> NoFile]
    /\ fs0 = fs
    /\ dirs = {<<>>}
    /\ head = [file \in Paths |-> NoFile]
    /\ hist = [file \in Paths |-> None]
    /\ gitOK = TRUE
    /\ ignored = FALSE
    /\ flaky = FALSE

IdleResolve ==
    /\ rin = [bq_modified |-> None, file |-> HarnessFile, force |-> FALSE]
    /\ rout = <<>>

\* The model argument of fetch: a string of at most MaxLen characters, each
\* a separator or not.
MaxLen == 6
Chars == {"x", "/"}
Strings == UNION {[1..k -> Chars] : k \in 0..MaxLen}

\* choices=["csv", "parquet"] of --format, and what else may be asked for.
FormatChoices == {"csv", "parquet"}
Formats == {"csv", "parquet", "json", "CSV"}

\* The invocations: `push` (with or without -v), `fetch MODEL [-f FORMAT]
\* [-o DIR]` under any configuration, and fetch_table_to_file called
\* directly with any fmt.
Invocations ==
    {[command |-> "push", verbose |-> v, model |-> <<>>, format |-> "csv",
      output_dir |-> FALSE, cfg |-> GoodConfig] : v \in BOOLEAN}
    \cup [command : {"fetch"}, verbose : {FALSE}, model : Strings, format : Formats,
          output_dir : {TRUE}, cfg : {GoodConfig}]
    \cup [command : {"fetch"}, verbose : {FALSE}, model : Strings, format : Formats,
          output_dir : {FALSE}, cfg : ConfigCases]
    \cup [command : {"fetch_table_to_file"}, verbose : {FALSE}, model : {<<>>},
          format : Formats, output_dir : {TRUE}, cfg : {GoodConfig}]

\* s.split("/")
RECURSIVE Split(_)
Split(s) ==
    IF \A i \in DOMAIN s : s[i] # "/" THEN <<s>>
    ELSE LET i == CHOOSE j \in DOMAIN s :
                      s[j] = "/" /\ \A k \in 1..(j - 1) : s[k] # "/"
         IN  <<SubSeq(s, 1, i - 1)>> \o Split(SubSeq(s, i + 1, Len(s)))

ValidSegmentsAtLeast3(n) == n >= 3

\* len(parts) == 4 / elif len(parts) == 3 / else
ValidSegments(n) == n = 4 \/ n = 3

\* main(argv): parse the arguments (argparse exits with status 2 on a
\* --format outside the choices) and dispatch on the command.
Main ==
    /\ cpc = "start" /\ inv.command # "none"
    /\ IF inv.command = "fetch_table_to_file"
           THEN cpc' = "fetch_table_to_file" /\ UNCHANGED <<trace, cstatus>>
       ELSE IF inv.command = "fetch" /\ inv.format \notin FormatChoices
           THEN cpc' = "exit" /\ cstatus' = 2 /\ trace' = <<"parse_args">>
       ELSE cpc' = inv.command /\ trace' = <<"parse_args">> /\ UNCHANGED cstatus
    /\ UNCHANGED <<inv, worldVars, runVars, rin, rout, otherTools>>

PushProjectReturns ==
    /\ cpc = "push"
    /\ cpc' = "done" /\ cstatus' = 0
    /\ UNCHANGED <<inv, trace, worldVars, runVars, rin, rout, otherTools>>

\* push_project(): raises NotImplementedError, which main does not catch.
PushProject ==
    /\ cpc = "push"
    /\ trace' = Append(trace, "NotImplementedError")
    /\ cpc' = "exit" /\ cstatus' = ExitStatus("NotImplementedError")
    /\ UNCHANGED <<inv, worldVars, runVars, rin, rout, otherTools>>

\* _handle_fetch(args), up to its call of fetch_table_to_file.
HandleFetch ==
    /\ cpc = "fetch"
    /\ LET parts == Split(inv.model)
           rc    == ResolveConfig(inv.cfg)
       IN  IF ~ValidSegments(Len(parts))
               THEN /\ trace' = trace \o <<"split", "invalid_path">>
                    /\ cpc' = "exit" /\ cstatus' = 1
           ELSE IF inv.output_dir
               THEN /\ trace' = trace \o <<"split", "data_dir">>
                    /\ cpc' = "fetch_table_to_file" /\ UNCHANGED cstatus
           ELSE IF rc # "ok"
               THEN /\ trace' = trace \o <<"split", "resolve_config">>
                    /\ cpc' = "exit" /\ cstatus' = ExitStatus(rc)
           ELSE /\ trace' = trace \o <<"split", "resolve_config", "data_dir">>
                /\ cpc' = "fetch_table_to_file" /\ UNCHANGED cstatus
    /\ UNCHANGED <<inv, worldVars, runVars, rin, rout, otherTools>>

\* fetch_table_to_file(project, dataset, table, dest, fmt): the format is
\* checked first (checkFirst) or only when the file is about to be written;
\* the table may or may not be readable.
FetchTable(checkFirst) ==
    /\ cpc = "fetch_table_to_file"
    /\ \E readable \in BOOLEAN :
          LET raised(t) ==
                  /\ trace' = trace \o t
                  /\ IF inv.command = "fetch"
                         THEN cpc' = "exit" /\ cstatus' = 1
                         ELSE cpc' = "raised" /\ UNCHANGED cstatus
          IN  IF checkFirst /\ inv.format \notin {"csv", "parquet"}
                  THEN raised(<<"ValueError">>)
              ELSE IF ~readable
                  THEN raised(<<"client", "list_rows", "NotFound">>)
              ELSE IF inv.format \notin {"csv", "parquet"}
                  THEN raised(<<"client", "list_rows", "mkdir", "ValueError">>)
              ELSE /\ trace' = trace \o <<"client", "list_rows", "mkdir", "write">>
                   /\ cpc' = "done"
                   /\ cstatus' = IF inv.command = "fetch" THEN 0 ELSE cstatus
    /\ UNCHANGED <<inv, worldVars, runVars, rin, rout, otherTools>>

FetchTableLateCheck == FetchTable(FALSE)

FetchTableToFile == FetchTable(TRUE)

InitCli ==
    /\ EmptyWorld
    /\ IdleRun
    /\ IdleResolve
    /\ IdleOtherTools
    /\ inv \in Invocations
    /\ cpc = "start"
    /\ trace = <<>>
    /\ cstatus = None

NextCli == Main \/ PushProject \/ HandleFetch \/ FetchTableToFile

SpecCli == InitCli /\ [][NextCli]_vars

-----------------------------------------------------------------------------
(* humanize.py.  A byte count is kept as its digits in base 1024, so that   *)
(* dividing by 1024.0 moves the point by one digit; the inputs are those    *)
(* float(n) represents exactly, for which the arithmetic below is the       *)
(* float arithmetic of the code.                                           *)

Units == <<"B", "KiB", "MiB", "GiB", "TiB", "PiB">>

\* The longest byte count, in digits of base 1024.
MaxDigits == 7
Digits == {0, 1, 2, 256, 768, 1023}

\* The magnitudes: a leading digit, the digit after it, and one digit
\* repeated below.
Magnitudes ==
    {<<>>}
    \cup { [i \in 1..len |-> IF i = len THEN top ELSE IF i = len - 1 THEN second ELSE low] :
             len \in 1..MaxDigits, top \in Digits \ {0}, second \in Digits,
             low \in {0, 1, 1023} }

\* Below 2^53, or a multiple of 2^50 of at most 53 significant bits.
ExactAsFloat(digits) ==
    \/ Len(digits) <= 5
    \/ Len(digits) = 6 /\ digits[6] <= 7
    \/ \A i \in 1..5 : digits[i] = 0

ByteCounts ==
    {NoBytes}
    \cup {Bytes(FALSE, d) : d \in {m \in Magnitudes : ExactAsFloat(m)}}
    \cup {Bytes(TRUE, d) : d \in {m \in Magnitudes : ExactAsFloat(m) /\ m # <<>>}}

\* The text returned: "" (unit ""), "<n> B" (tenth None), or
\* "<whole>.<tenth> <unit>".
Text(neg, whole, tenth, unit) ==
    [neg |-> neg, whole |-> whole, tenth |-> tenth, unit |-> unit]

\* Ten times a fraction given by its digits: the digits of the fractional
\* part of the product and the integer part (0..9).
RECURSIVE MulTen(_)
MulTen(f) ==
    IF f = <<>> THEN [digits |-> <<>>, carry |-> 0]
    ELSE LET lo  == MulTen(SubSeq(f, 1, Len(f) - 1))
             top == f[Len(f)] * 10 + lo.carry
         IN  [digits |-> Append(lo.digits, top % 1024), carry |-> top \div 1024]

\* A fraction against one half: -1 below, 0 equal, 1 above.
CompareHalf(f) ==
    IF f = <<>> THEN -1
    ELSE IF f[Len(f)] > 512 THEN 1
    ELSE IF f[Len(f)] < 512 THEN -1
    ELSE IF \E i \in 1..(Len(f) - 1) : f[i] # 0 THEN 1
    ELSE 0

\* whole + 1, on digits.
RECURSIVE Inc(_)
Inc(d) ==
    IF d = <<>> THEN <<1>>
    ELSE IF d[1] < 1023 THEN <<d[1] + 1>> \o Tail(d)
    ELSE <<0>> \o Inc(Tail(d))

\* f"{value:.1f} {unit}" for value = digits / 1024^k: correctly rounded to
\* one decimal, ties to the even digit.
Format1f(digits, k, unit) ==
    LET whole == SubSeq(digits, k + 1, Len(digits))
        prod  == MulTen(SubSeq(digits, 1, k))
        half  == CompareHalf(prod.digits)
        up    == half = 1 \/ (half = 0 /\ prod.carry % 2 = 1)
        tenth == IF up THEN prod.carry + 1 ELSE prod.carry
    IN  IF tenth = 10 THEN Text(FALSE, Inc(whole), 0, unit)
        ELSE Text(FALSE, whole, tenth, unit)

\* for unit in units[:-1]: ... value /= 1024.0, then units[-1]; k is the
\* number of divisions made, last the index of the unit of the final return.
RECURSIVE HumanizeLoop(_, _, _)
HumanizeLoop(n, k, last) ==
    IF k + 1 = last THEN Format1f(n.digits, k, Units[last])
    ELSE IF Len(n.digits) - k <= 1
        THEN IF k = 0 THEN Text(FALSE, n.digits, None, "B")
             ELSE Format1f(n.digits, k, Units[k + 1])
    ELSE HumanizeLoop(n, k + 1, last)

\* A variant whose table of units ends at TiB.
HumanizeBytesShortTable(n) ==
    IF n.none THEN Text(FALSE, <<>>, None, "")
    ELSE IF n.neg THEN Text(TRUE, n.digits, None, "B")
    ELSE HumanizeLoop(n, 0, Len(Units) - 1)

\* humanize_bytes(n)
HumanizeBytes(n) ==
    IF n.none THEN Text(FALSE, <<>>, None, "")
    ELSE IF n.neg THEN Text(TRUE, n.digits, None, "B")
    ELSE HumanizeLoop(n, 0, Len(Units))

InitHumanize ==
    /\ EmptyWorld
    /\ IdleRun
    /\ IdleResolve
    /\ IdleCli
    /\ IdleWriters
    /\ IdleDiscover
    /\ IdleScope
    /\ IdleRepeat
    /\ hin \in ByteCounts
    /\ hout = <<>>

\* One call of humanize_bytes(hin).
HumanizeCall ==
    /\ Len(hout) < 2
    /\ hout' = Append(hout, HumanizeBytes(hin))
    /\ UNCHANGED <<hin, worldVars, runVars, rin, rout, cliVars, wrVars, discVars, scopeVars, repVars>>

NextHumanize == HumanizeCall

SpecHumanize == InitHumanize /\ [][NextHumanize]_vars

-----------------------------------------------------------------------------
(* writers.py.  A file is a sequence of lines; a line is a key, a value and *)
(* (for total_logical_bytes) a humanized size.                              *)

NoSize == HumanizeBytes(NoBytes)
Line(key, value) == [key |-> key, value |-> value, size |-> NoSize]
SizeLine(n) == [key |-> "total_logical_bytes", value |-> "", size |-> HumanizeBytes(n)]

Writers ==
    {"write_view_sql", "write_routine_sql", "write_scheduled_query_sql",
     "write_model_yaml", "write_view_model_yaml", "write_routine_model_yaml",
     "write_external_definition", "write_saved_query_sql"}

\* A schema field: the keys it has and its name.
FullField == [keys |-> {"name", "type", "mode", "description"}, name |-> "f"]
NamelessField == [keys |-> {"type", "mode"}, name |-> ""]
Schemas == {<<>>, <<FullField>>, <<FullField, NamelessField>>}

\* The resources handed to a writer: the fields that decide which lines are
\* written.
WResources ==
    [name : {"a"}, sql : {"s1", "s2"}, created : {None, EPOCH},
     region : {"", "US"}, bytes : {NoBytes, Bytes(FALSE, <<0, 1>>)},
     schema : Schemas]

IsoFormat(t) == IF t = EPOCH THEN "1970-01-01T00:00:00+00:00" ELSE "later"

\* if x: lines.append(...)
Optional(present, line) == IF present THEN <<line>> ELSE <<>>

\* _format_schema_lines(schema): field['name'] raises KeyError for a field
\* without a name.
SchemaFails(schema) == \E i \in DOMAIN schema : "name" \notin schema[i].keys
FormatSchemaLines(schema) ==
    <<Line("schema:", "")>> \o [i \in DOMAIN schema |-> Line("  - name", schema[i].name)]

HasSchema(writer) ==
    writer \in {"write_model_yaml", "write_view_model_yaml", "write_external_definition"}

\* The text a writer builds from the resource.
RenderText(writer, r) ==
    CASE writer = "write_view_sql" -> <<Line("sql", r.sql)>>
      [] writer = "write_routine_sql" ->
            <<Line("-- Routine", r.name), Line("-- Language", "SQL"), Line("", ""), Line("sql", r.sql)>>
      [] writer = "write_scheduled_query_sql" ->
            <<Line("-- Scheduled Query", r.name), Line("-- Schedule", "daily"), Line("", ""), Line("sql", r.sql)>>
      [] writer = "write_saved_query_sql" ->
            <<Line("-- Saved Query", r.name), Line("", ""), Line("sql", r.sql)>>
      [] writer = "write_model_yaml" ->
            <<Line("name", r.name), Line("description", ""), Line("row_count", "0")>>
            \o Optional(r.created # None, Line("created", IsoFormat(r.created)))
            \o <<Line("modified", IsoFormat(EPOCH))>>
            \o Optional(r.region # "", Line("region", r.region))
            \o Optional(~r.bytes.none, SizeLine(r.bytes))
            \o FormatSchemaLines(r.schema)
      [] writer = "write_view_model_yaml" ->
            <<Line("name", r.name), Line("description", ""), Line("type", "VIEW")>>
            \o Optional(r.created # None, Line("created", IsoFormat(r.created)))
            \o <<Line("modified", IsoFormat(EPOCH))>>
            \o Optional(r.region # "", Line("region", r.region))
            \o FormatSchemaLines(r.schema)
      [] writer = "write_routine_model_yaml" ->
            <<Line("name", r.name), Line("description", ""), Line("language", "SQL")>>
            \o Optional(r.created # None, Line("created", IsoFormat(r.created)))
            \o <<Line("modified", IsoFormat(EPOCH))>>
      [] writer = "write_external_definition" ->
            <<Line("name", r.name), Line("description", ""), Line("source_format", "CSV"),
              Line("source_uris:", "")>>
            \o Optional(r.created # None, Line("created", IsoFormat(r.created)))
            \o <<Line("modified", IsoFormat(EPOCH))>>
            \o Optional(r.region # "", Line("region", r.region))
            \o <<Line("row_count", "0")>>
            \o Optional(~r.bytes.none, SizeLine(r.bytes))
            \o FormatSchemaLines(r.schema)

\* A file left by the user, longer than anything a writer renders.
UserText == [i \in 1..12 |-> Line("user", "edit")]

\* What the path may hold before the first write.
PriorFiles ==
    {AbsentFile, [exists |-> TRUE, text |-> <<>>], [exists |-> TRUE, text |-> UserText]}
    \cup {[exists |-> TRUE, text |-> RenderText("write_routine_sql", r)] :
            r \in {x \in WResources : x.created = None /\ x.region = "" /\ x.bytes.none /\ x.schema = <<>>}}

\* A write that opens the file for appending.
WriteTextAppend(old, text) == [exists |-> TRUE, text |-> old.text \o text]

\* path.write_text(text): the file is created or truncated.
WriteText(old, text) == [exists |-> TRUE, text |-> text]

InitWriters ==
    /\ EmptyWorld
    /\ IdleRun
    /\ IdleResolve
    /\ IdleCli
    /\ IdleHumanize
    /\ IdleDiscover
    /\ IdleScope
    /\ IdleRepeat
    /\ \E w \in Writers, r \in WResources, p \in WPaths :
           wcall = [writer |-> w, res |-> r, path |-> p]
    /\ \E f \in PriorFiles, g \in {AbsentFile, [exists |-> TRUE, text |-> UserText]} :
           wtree = [p \in WPaths |-> IF p = wcall.path THEN f ELSE g]
    /\ wdirs \in {{}, {"out"}}
    /\ (\E p \in WPaths : wtree[p].exists) => wdirs = {"out"}
    /\ wlog = <<>>

\* One call of the writer: _ensure_parent(path), the text is built, and
\* path.write_text(text).
WriterCall ==
    /\ Len(wlog) < 2
    /\ wdirs' = wdirs \cup {"out"}
    /\ IF HasSchema(wcall.writer) /\ SchemaFails(wcall.res.schema)
          THEN wtree' = wtree
          ELSE wtree' = [wtree EXCEPT ![wcall.path] =
                            WriteText(@, RenderText(wcall.writer, wcall.res))]
    /\ wlog' = Append(wlog,
                  [raised |-> HasSchema(wcall.writer) /\ SchemaFails(wcall.res.schema),
                   before |-> wtree[wcall.path],
                   file   |-> wtree'[wcall.path]])
    /\ UNCHANGED <<wcall, worldVars, runVars, rin, rout, cliVars, humVars, discVars, scopeVars, repVars>>

NextWriters == WriterCall

SpecWriters == InitWriters /\ [][NextWriters]_vars

-----------------------------------------------------------------------------
(* config.py: discover_config.  The directories from the filesystem root   *)
(* down to the deepest one are levels 1..Len(dtree); dtree[l] tells what    *)
(* the name bq_sync.toml is in the directory of level l.                    *)

\* The deepest chain of directories.
MaxDepth == 4
Entries == {"none", "file", "dir"}
Chains == UNION {[1..d -> Entries] : d \in 1..MaxDepth}

\* A variant that takes any entry of the name for the configuration file.
IsFileExists(entry) == entry # "none"

\* candidate.is_file()
IsConfigFile(entry) == entry = "file"

\* current.parent: the root is its own parent.
Parent(level) == IF level = 1 THEN 1 ELSE level - 1

\* (start or Path.cwd()).resolve()
Resolved(start, cwd) == IF start = None THEN cwd ELSE start

InitDiscover ==
    /\ EmptyWorld
    /\ IdleRun
    /\ IdleResolve
    /\ IdleCli
    /\ IdleHumanize
    /\ IdleWriters
    /\ IdleScope
    /\ IdleRepeat
    /\ dtree \in Chains
    /\ dcwd \in DOMAIN dtree
    /\ dstart \in {None} \cup DOMAIN dtree
    /\ dcur = 0
    /\ dpc = "idle"
    /\ dret = None

\* discover_config(start) is called.
DiscoverCall ==
    /\ dpc = "idle"
    /\ dcur' = Resolved(dstart, dcwd)
    /\ dpc' = "loop"
    /\ UNCHANGED <<dtree, dcwd, dstart, dret, worldVars, runVars, rin, rout, cliVars, humVars, wrVars, scopeVars, repVars>>

\* One iteration of the while loop.
DiscoverStep ==
    /\ dpc = "loop"
    /\ IF IsConfigFile(dtree[dcur])
          THEN /\ dpc' = "returned"
               /\ dret' = dcur
               /\ dcur' = dcur
          ELSE IF Parent(dcur) = dcur
          THEN /\ dpc' = "raised"
               /\ UNCHANGED <<dret, dcur>>
          ELSE /\ dcur' = Parent(dcur)
               /\ UNCHANGED <<dpc, dret>>
    /\ UNCHANGED <<dtree, dcwd, dstart, worldVars, runVars, rin, rout, cliVars, humVars, wrVars, scopeVars, repVars>>

NextDiscover == DiscoverCall \/ DiscoverStep

\* The call runs to its end once made: the interpreter keeps executing.
SpecDiscover == InitDiscover /\ [][NextDiscover]_vars /\ WF_vars(NextDiscover)

-----------------------------------------------------------------------------
(* cli.py and pull.py: the datasets a pull goes through.  The command is    *)
(* followed from the parsed --dataset option to the lister calls of         *)
(* pull_project, whatever the listings hold.                                *)

\* The longest configured list of datasets.
MaxDatasets == 2
ConfiguredNames == {"d1", "d2"}
DatasetLists == UNION {[1..n -> ConfiguredNames] : n \in 0..MaxDatasets}

\* --dataset: not given, or any string (type=str).
DatasetArgs ==
    {NoDataset} \cup {[given |-> TRUE, value |-> v] : v \in {"", "d1", "d2", "d3"}}

\* `if args.dataset:` is the truth value of the string.
Truthy(arg) == arg.given /\ arg.value # ""

\* resolve_output_dir(config, config_path)
ResolveOutputDir(config) == <<config.output_dir, config.project>>

\* The lister calls of pull_project for a configuration.
PlanOf(config) ==
    DatasetCalls(config.datasets)
    \o << [cat |-> "scheduled", ds |-> ""], [cat |-> "saved", ds |-> ""] >>

InitScope ==
    /\ EmptyWorld
    /\ IdleRun
    /\ IdleResolve
    /\ IdleCli
    /\ IdleHumanize
    /\ IdleWriters
    /\ IdleDiscover
    /\ IdleRepeat
    /\ sarg \in DatasetArgs
    /\ \E l \in DatasetLists, o \in {".", "out"} : sconf = SyncConfig("p", l, o)
    /\ seff = SyncConfig("p", <<>>, ".")
    /\ scalls = <<>>
    /\ swrites = {}
    /\ spc = "start"

\* _handle_pull(args), up to the call of pull_project.
ScopeHandlePull ==
    /\ spc = "start"
    /\ seff' = IF Truthy(sarg)
                   THEN SyncConfig(sconf.project, <<sarg.value>>, sconf.output_dir)
                   ELSE sconf
    /\ spc' = "run"
    /\ UNCHANGED <<sarg, sconf, scalls, swrites, worldVars, runVars, rin, rout,
                   cliVars, humVars, wrVars, discVars, repVars>>

\* One lister call of pull_project and the loop over its result, which may
\* write below the directory of the dataset (or of the project).
ScopeListNext ==
    /\ spc = "run"
    /\ Len(scalls) < Len(PlanOf(seff))
    /\ LET call == PlanOf(seff)[Len(scalls) + 1]
       IN  /\ scalls' = Append(scalls, [cat |-> call.cat, ds |-> call.ds,
                                         project |-> seff.project])
           /\ \E wrote \in BOOLEAN :
                 swrites' = IF wrote
                                THEN swrites \cup {[root |-> ResolveOutputDir(seff), ds |-> call.ds]}
                                ELSE swrites
    /\ UNCHANGED <<sarg, sconf, seff, spc, worldVars, runVars, rin, rout,
                   cliVars, humVars, wrVars, discVars, repVars>>

\* logger.info("Pull complete.")
ScopeDone ==
    /\ spc = "run"
    /\ Len(scalls) = Len(PlanOf(seff))
    /\ spc' = "done"
    /\ UNCHANGED <<sarg, sconf, seff, scalls, swrites, worldVars, runVars, rin, rout,
                   cliVars, humVars, wrVars, discVars, repVars>>

NextScope == ScopeHandlePull \/ ScopeListNext \/ ScopeDone

SpecScope == InitScope /\ [][NextScope]_vars

-----------------------------------------------------------------------------
(* Repeated pulls: the command is run again on the tree the previous run   *)
(* left, inside a repository, the user committing in between or not.       *)

\* The number of pull commands run one after the other.
MaxRounds == 3

RepeatArgs == [force : BOOLEAN, dry_run : BOOLEAN, force_files : {NoForceFiles}]

InitRepeat ==
    /\ Init
    /\ ~flaky

\* git add -f <the files the pull wrote>; git commit, at time t.
Commit ==
    /\ gitOK
    /\ pc = "done" /\ written # <<>> /\ commitAt = None
    /\ \E t \in Times :
          /\ head' = [file \in Paths |->
                         IF \E i \in DOMAIN written : written[i] = file
                             THEN fs[file] ELSE head[file]]
          /\ hist' = [file \in Paths |->
                         IF \E i \in DOMAIN written : written[i] = file
                             THEN t ELSE hist[file]]
          /\ commitAt' = t
    /\ UNCHANGED <<remote, fs, fs0, dirs, gitOK, ignored, flaky, runVars, rin, rout,
                   cliVars, humVars, wrVars, discVars, scopeVars, round, prev>>

\* The command has ended; it is started again.
PullAgain ==
    /\ pc \in {"done", "exit"} /\ round < MaxRounds
    /\ round' = round + 1
    /\ prev' = [pc |-> pc, force |-> args.force, dry_run |-> args.dry_run,
                log |-> log, written |-> written, commitAt |-> commitAt,
                clean |-> ~HasUncommittedChanges]
    /\ commitAt' = None
    /\ fs0' = fs
    /\ args' = IdleArgs /\ pc' = "idle" /\ cat' = 0 /\ items' = <<>> /\ log' = <<>>
    /\ written' = <<>> /\ listed' = <<>> /\ preChecks' = <<>> /\ exitCode' = None
    /\ dataform' = NotCalled /\ cfg' = GoodConfig
    /\ UNCHANGED <<remote, fs, dirs, head, hist, gitOK, ignored, flaky, rin, rout,
                   cliVars, humVars, wrVars, discVars, scopeVars>>

NextRepeat ==
    \/ \E a \in RepeatArgs : HandlePull(a, GoodConfig)
    \/ ListNext
    \/ ProcessItem
    \/ PullComplete
    \/ Commit
    \/ PullAgain

SpecRepeat == InitRepeat /\ [][NextRepeat]_vars

-----------------------------------------------------------------------------
(* Properties of the decision matrix (under SpecResolve) *)

Called == Len(rout) >= 1
CommitKnown(file) == gitOK /\ hist[file] # None

\* C1: with force=true resolve returns FETCH for every remote timestamp
\* (absent or not), file presence and commit history, and consults neither
\* the file's existence nor git.
C1_ForceAlwaysFetch ==
    rin.force =>
        \A i \in DOMAIN rout : rout[i].action = FETCH /\ rout[i].probes = {}

C1_Witness ==
    /\ Called /\ rin.force
    /\ rin.bq_modified = None /\ ~IsFile(rin.file) /\ ~CommitKnown(rin.file)
    /\ rout[1].action = FETCH

\* C2: force off, remote at T, file present, last commit C known:
\* SKIP if T <= C (T = C included) and FETCH if T > C.
C2_CompareNonStrict ==
    (~rin.force /\ rin.bq_modified # None /\ IsFile(rin.file) /\ CommitKnown(rin.file)) =>
        \A i \in DOMAIN rout :
            rout[i].action = IF rin.bq_modified <= hist[rin.file] THEN SKIP ELSE FETCH

C2_Witness ==
    /\ Called /\ ~rin.force /\ IsFile(rin.file) /\ CommitKnown(rin.file)
    /\ rin.bq_modified = hist[rin.file]
    /\ rout[1].action = SKIP

\* C3: force off, remote present, file present, no commit history (never
\* committed, or the git query failed): WARN for every remote timestamp.
C3_NoHistoryWarn ==
    (~rin.force /\ rin.bq_modified # None /\ IsFile(rin.file) /\ ~CommitKnown(rin.file)) =>
        \A i \in DOMAIN rout : rout[i].action = WARN

C3_Witness ==
    /\ Called /\ ~rin.force /\ rin.bq_modified = MaxTime /\ IsFile(rin.file)
    /\ ~gitOK /\ hist[rin.file] # None
    /\ rout[1].action = WARN

\* C4: force off, remote absent, file present: every call returns WARN
\* whatever the commit history is, without asking git, and leaves the file
\* (and everything else in the tree) as it was.
C4_DeletedRemoteWarn ==
    [][(rout' # rout /\ ~rin.force /\ rin.bq_modified = None /\ IsFile(rin.file)) =>
          /\ rout'[Len(rout')].action = WARN
          /\ "git_log" \notin rout'[Len(rout')].probes
          /\ fs' = fs /\ dirs' = dirs]_vars

C4_Witness ==
    /\ Called /\ ~rin.force /\ rin.bq_modified = None /\ IsFile(rin.file)
    /\ CommitKnown(rin.file) /\ head[rin.file] = fs[rin.file]
    /\ rout[1].action = WARN

\* C5: force off, file absent: FETCH if the remote resource exists (any
\* timestamp), SKIP if it does not; git is not asked in either case.
C5_AbsentFile ==
    (~rin.force /\ ~IsFile(rin.file)) =>
        \A i \in DOMAIN rout :
            /\ rout[i].action = IF rin.bq_modified # None THEN FETCH ELSE SKIP
            /\ "git_log" \notin rout[i].probes

C5_Witness ==
    /\ Called /\ ~rin.force /\ ~IsFile(rin.file) /\ CommitKnown(rin.file)
    /\ rin.bq_modified # None /\ rin.bq_modified <= hist[rin.file]
    /\ rout[1].action = FETCH

\* C6: a call of resolve changes nothing of the tree, of git or of the
\* remote, and a second call with the same (remote timestamp, file presence,
\* commit timestamp, force) returns the same action as the first, also when
\* the content of the file was edited in between.
C6_PureDecision ==
    [][rout' # rout =>
          /\ worldVars' = worldVars
          /\ rin' = rin
          /\ (Len(rout) = 1 => rout'[2].action = rout[1].action)]_vars

C6_Witness ==
    /\ Len(rout) = 2
    /\ fs[rin.file] = UserContent(1) /\ head[rin.file] = UserContent(0)
    /\ CommitKnown(rin.file) /\ ~rin.force /\ rin.bq_modified # None
    /\ rout[2].action = SKIP

-----------------------------------------------------------------------------
(* Properties of the orchestrator (under Spec) *)

LastOf(seq) == seq[Len(seq)]

\* The file is named by the force-file list: by its full path or by its name.
InList(file, force_files) ==
    \E i \in DOMAIN force_files.list :
        force_files.list[i] \in {Str(file), NameOf(file)}

\* C7: the uncommitted-changes precondition is evaluated once, before any
\* lister call and before any dataset is processed; when it trips (as it
\* does on a tracked file that was edited) the run exits with status 1
\* having listed nothing, decided nothing and written nothing, whatever
\* force, force_files and dry_run are.
C7_PreconditionFirst ==
    /\ Len(preChecks) <= 1
    /\ (listed # <<>> \/ log # <<>> \/ written # <<>>) => preChecks = <<FALSE>>
    /\ preChecks = <<TRUE>> =>
          /\ pc = "exit" /\ exitCode = 1
          /\ listed = <<>> /\ log = <<>> /\ written = <<>>
    /\ (pc # "idle" /\ written = <<>> /\ gitOK
            /\ \E file \in Paths : head[file] # NoFile /\ fs[file] # head[file]) =>
          pc = "exit" /\ exitCode = 1

C7_Witness ==
    /\ pc = "exit" /\ exitCode = 1 /\ preChecks = <<TRUE>>
    /\ args.force /\ args.dry_run /\ args.force_files.given
    /\ \E r \in Resources : remote[r] # Absent
    /\ \E file \in Paths : head[file] # NoFile /\ fs[file] # head[file]

\* C8: in every step of a pull, a resource decided SKIP or WARN has no file
\* created or overwritten and no directory created; a step changes the tree
\* only for a resource decided FETCH, and only at that resource's files.
C8_WriteOnlyOnFetch ==
    [][/\ (log' # log /\ LastOf(log').action \in {SKIP, WARN}) =>
              (fs' = fs /\ dirs' = dirs /\ written' = written)
       /\ (fs' # fs \/ dirs' # dirs \/ written' # written) =>
              /\ log' # log
              /\ LastOf(log').action = FETCH
              /\ \A file \in Paths :
                    fs'[file] # fs[file] =>
                        \E i \in DOMAIN WritePaths(LastOf(log').res) :
                            WritePaths(LastOf(log').res)[i] = file]_vars

C8_Witness ==
    /\ log # <<>>
    /\ LastOf(log).action = WARN
    /\ LastOf(log).res.cat = "saved"
    /\ ~args.dry_run
    /\ fs[LastOf(log).file] = UserContent(0)
    /\ written = <<>>

\* C9: with --force and a force-file list, a resource is forced only if its
\* destination (full path, or file name) is in the list, and a resource not
\* in the list gets the action of the decision matrix.
C9_ForceFilter ==
    [][(log' # log /\ args.force /\ args.force_files.given) =>
          /\ LastOf(log').forced => InList(LastOf(log').file, args.force_files)
          /\ ~InList(LastOf(log').file, args.force_files) =>
                LastOf(log').action =
                    DecisionMatrix(LastOf(log').modified, LastOf(log').file).action]_vars

C9_Witness ==
    /\ log # <<>>
    /\ args.force /\ args.force_files.given
    /\ ~InList(LastOf(log).file, args.force_files)
    /\ ~LastOf(log).forced
    /\ LastOf(log).action = SKIP

\* C10: --force-file alone forces the named file: a resource whose
\* destination is in the force-file list is decided FETCH.
C10_ForceFileSuffices ==
    \A i \in DOMAIN log :
        (args.force_files.given /\ InList(log[i].file, args.force_files)) =>
            log[i].action = FETCH

\* The action of the decision matrix for the entry, had the work tree still
\* been as it was when the command started.
InitialAction(e) ==
    IF e.forced THEN FETCH
    ELSE IF e.modified = None THEN (IF fs0[e.file] # NoFile THEN WARN ELSE SKIP)
    ELSE IF fs0[e.file] = NoFile THEN FETCH
    ELSE IF GitCommittedTime(e.file) = None THEN WARN
    ELSE IF e.modified <= GitCommittedTime(e.file) THEN SKIP
    ELSE FETCH

\* C11: with dry_run a pull writes no file and creates no directory; and
\* the decision taken for each resource, with or without dry_run, is the
\* one a dry run takes: the decision on the tree as the command found it.
C11_DryRunFaithful ==
    [][/\ (pc = "run" /\ args.dry_run) => (fs' = fs /\ dirs' = dirs /\ written' = written)
       /\ log' # log => LastOf(log').action = InitialAction(LastOf(log'))]_vars

\* The configuration cannot be used: no file, or a required key missing.
ConfigBroken ==
    \/ ~cfg.exists
    \/ \E k \in {"project.id", "project.default_region", "sync.datasets"} : k \notin cfg.keys

Pulled(r) == \E i \in DOMAIN log : log[i].res = r

CanGoOn == ENABLED (ListNext \/ ProcessItem \/ PullComplete)

\* C12: when git fails (no repository, no binary) git_committed_time is
\* None and has_uncommitted_changes is False; the pull is not aborted: the
\* precondition does not trip, the run never exits with an error, it can
\* always take its next step, and when it is done every listed resource
\* has been decided.
C12_GitFailureTolerated ==
    (~gitOK /\ ~ConfigBroken) =>
        /\ \A file \in Paths : GitCommittedTime(file) = None
        /\ ~HasUncommittedChanges
        /\ \A i \in DOMAIN preChecks : ~preChecks[i]
        /\ pc # "exit" /\ exitCode \in {None, 0}
        /\ pc = "run" => CanGoOn
        /\ pc = "done" =>
              /\ \A r \in Resources :
                    (r.cat # "saved" /\ remote[r] # Absent) => Pulled(r)
              /\ \A i \in DOMAIN dataform.result : Pulled(dataform.result[i].res)

C12_Witness ==
    /\ ~gitOK /\ ~ConfigBroken
    /\ pc = "done"
    /\ preChecks = <<FALSE>>
    /\ \E i \in DOMAIN log :
          /\ log[i].action = WARN /\ log[i].modified # None
          /\ fs0[log[i].file] # NoFile

\* C13 (as first stated): any error met while listing saved queries is
\* caught at the top level, and the listing is then empty.
C13_AnyErrorEmptiesListing ==
    dataform.error # "none" => (dataform.error = "outer" /\ dataform.result = <<>>)

\* C13: an error of the client, of list_repositories (or any other that
\* reaches the outer handler) makes list_saved_queries return an empty
\* list, dropping the entries already collected; an error of
\* list_workspaces or read_file is caught for its repository alone, which
\* is skipped while the others are returned.  In neither case does the
\* error reach pull_saved_queries: saved queries outside the returned list
\* are neither decided nor written, and the pull goes on to completion.
C13_SavedErrorsContained ==
    LET repos == Lister(SavedCall)
        returned == {dataform.result[i].res : i \in DOMAIN dataform.result}
    IN  /\ dataform.error = "outer" => dataform.result = <<>>
        /\ dataform.error = "inner" =>
              \E k \in DOMAIN repos :
                  /\ dataform.collected = SubSeq(repos, 1, k - 1)
                  /\ dataform.result = Without(repos, k)
        /\ \A i \in DOMAIN log : log[i].res.cat = "saved" => log[i].res \in returned
        /\ \A i \in DOMAIN written :
              \A r \in Resources :
                  (r.cat = "saved" /\ written[i] = SavedPath(r.name)) => r \in returned
        /\ dataform.error # "none" =>
              /\ pc # "exit"
              /\ pc = "run" => CanGoOn
              /\ pc = "done" => exitCode = 0

C13_Witness ==
    /\ dataform.error = "outer"
    /\ dataform.collected # <<>>
    /\ dataform.result = <<>>
    /\ pc = "done" /\ exitCode = 0
    /\ written = <<>>

\* C14: a pull started with a configuration that cannot be used (no file,
\* or a required key such as project.default_region missing) ends with a
\* non-zero exit status, the precondition never evaluated, nothing listed,
\* nothing decided and no file written.
C14_ConfigErrorFatal ==
    (pc # "idle" /\ ConfigBroken) =>
        /\ pc = "exit"
        /\ exitCode \notin {None, 0}
        /\ preChecks = <<>> /\ listed = <<>> /\ log = <<>> /\ written = <<>>
        /\ fs = fs0

C14_Witness ==
    /\ pc = "exit" /\ exitCode = 1
    /\ cfg.exists /\ "project.default_region" \notin cfg.keys
    /\ preChecks = <<>>
    /\ \E r \in Resources : remote[r] # Absent
    /\ RootExists /\ HasUncommittedChanges

-----------------------------------------------------------------------------
(* Properties of the push and fetch commands (under SpecCli) *)

Did(x) == \E i \in DOMAIN trace : trace[i] = x

\* The number of '/'-separated segments of a string.
SegmentCount(s) == Cardinality({i \in DOMAIN s : s[i] = "/"}) + 1

\* C15: once fetch has handled a model path (given a format the parser
\* accepts), a path of 3 or 4 segments has not been rejected and the command
\* has gone on to find its data directory, while a path of any other
\* segment count has made it exit with a non-zero status having done
\* nothing else: no configuration read, no data directory resolved, no
\* client, no rows read, no directory made, no file written.
C15_FetchSegments ==
    (inv.command = "fetch" /\ inv.format \in {"csv", "parquet"}
        /\ cpc \notin {"start", "fetch"}) =>
        IF SegmentCount(inv.model) \in {3, 4}
            THEN ~Did("invalid_path") /\ (Did("data_dir") \/ Did("resolve_config"))
            ELSE /\ cpc = "exit" /\ cstatus \notin {None, 0}
                 /\ trace = <<"parse_args", "split", "invalid_path">>

C15_Witness ==
    /\ inv.command = "fetch" /\ inv.format = "parquet"
    /\ SegmentCount(inv.model) = 5
    /\ cpc = "exit" /\ cstatus = 1
    /\ Did("invalid_path")

\* C16: fetch_table_to_file called with a format other than csv or parquet
\* raises ValueError having done nothing before (no client, no rows read, no
\* directory, no file); and `fetch -f <such a format>` is ended by the
\* argument parser, with status 2, before any handler runs.
C16_FormatRejected ==
    /\ (inv.command = "fetch_table_to_file" /\ inv.format \notin {"csv", "parquet"}
            /\ cpc \notin {"start", "fetch_table_to_file"}) =>
          (cpc = "raised" /\ trace = <<"ValueError">>)
    /\ (inv.command = "fetch" /\ inv.format \notin {"csv", "parquet"} /\ cpc # "start") =>
          (cpc = "exit" /\ cstatus = 2 /\ trace = <<"parse_args">>)

C16_Witness ==
    /\ inv.command = "fetch_table_to_file" /\ inv.format = "json"
    /\ cpc = "raised"
    /\ trace = <<"ValueError">>

\* C17: push, however invoked, does nothing but fail: after the arguments
\* are parsed its only step raises NotImplementedError, the process ends
\* with status 1, and no precondition was evaluated, nothing listed and no
\* file written.
C17_PushNotImplemented ==
    inv.command = "push" =>
        /\ cpc \in {"start", "push", "exit"}
        /\ cpc = "start" => (trace = <<>> /\ cstatus = None)
        /\ cpc = "push" => (trace = <<"parse_args">> /\ cstatus = None /\ ENABLED PushProject)
        /\ cpc = "exit" =>
              (trace = <<"parse_args", "NotImplementedError">> /\ cstatus = 1)
        /\ preChecks = <<>> /\ listed = <<>> /\ log = <<>> /\ written = <<>>
        /\ fs = fs0

C17_Witness ==
    /\ inv.command = "push" /\ inv.verbose
    /\ cpc = "exit" /\ cstatus = 1
    /\ Did("NotImplementedError")

-----------------------------------------------------------------------------
(* Properties of humanize_bytes (under SpecHumanize) *)

\* The number of divisions by 1024 the reference makes: until the value is
\* below 1024, or until PiB is reached.
ReferenceDivisions(digits) ==
    IF Len(digits) - 1 > 5 THEN 5 ELSE Len(digits) - 1

ReferenceText(n) ==
    IF n.none THEN Text(FALSE, <<>>, None, "")
    ELSE IF n.neg THEN Text(TRUE, n.digits, None, "B")
    ELSE IF Len(n.digits) <= 1 THEN Text(FALSE, n.digits, None, "B")
    ELSE LET k    == ReferenceDivisions(n.digits)
             unit == CASE k = 1 -> "KiB" [] k = 2 -> "MiB" [] k = 3 -> "GiB"
                       [] k = 4 -> "TiB" [] k = 5 -> "PiB"
         IN  Format1f(n.digits, k, unit)

\* The examples of the reference: 1024, 1048576 and 2 * 1024^3.
ReferenceExamples ==
    /\ hin = Bytes(FALSE, <<0, 1>>)       => hout[1] = Text(FALSE, <<1>>, 0, "KiB")
    /\ hin = Bytes(FALSE, <<0, 0, 1>>)    => hout[1] = Text(FALSE, <<1>>, 0, "MiB")
    /\ hin = Bytes(FALSE, <<0, 0, 0, 2>>) => hout[1] = Text(FALSE, <<2>>, 0, "GiB")

\* C18: humanize_bytes returns, for every input, the text of the reference:
\* "" for None, "<n> B" for a negative n or one below 1024, and otherwise n
\* divided by 1024 until it is below 1024 or the unit is PiB, with one decimal
\* and the unit of the number of divisions.
C18_HumanizeReference ==
    hout # <<>> =>
        /\ \A i \in DOMAIN hout : hout[i] = ReferenceText(hin)
        /\ ReferenceExamples

\* A count of 1024 PiB or more has been printed, in PiB.
C18_Witness ==
    /\ hout # <<>>
    /\ ~hin.none /\ ~hin.neg
    /\ Len(hin.digits) = 7
    /\ hout[1].unit = "PiB"
    /\ Len(hout[1].whole) = 2

-----------------------------------------------------------------------------
(* Properties of the writers (under SpecWriters) *)

\* C19: a writer called twice in a row with the same resource and path
\* leaves the file as the first call left it, whatever the path held before
\* the first call.
C19_WritersIdempotent ==
    Len(wlog) = 2 =>
        /\ wlog[2].file = wlog[1].file
        /\ wtree[wcall.path] = wlog[1].file

\* A model file written twice over a longer file of the user's.
C19_Witness ==
    /\ Len(wlog) = 2
    /\ wcall.writer = "write_model_yaml"
    /\ ~wlog[1].raised
    /\ wlog[1].before = [exists |-> TRUE, text |-> UserText]
    /\ wlog[1].file # wlog[1].before
    /\ ~wcall.res.bytes.none

-----------------------------------------------------------------------------
(* Properties of discover_config (under SpecDiscover) *)

\* The levels, among start and its ancestors, whose directory holds a file
\* named bq_sync.toml.
Holders == {l \in 1..Resolved(dstart, dcwd) : dtree[l] = "file"}

DiscoverDone == dpc \in {"returned", "raised"}

DiscoverCorrect ==
    /\ dpc = "returned" => dret \in Holders /\ \A l \in Holders : l <= dret
    /\ dpc = "raised" => Holders = {}

\* C20: the upward search of discover_config ends, for every start directory;
\* it returns the bq_sync.toml of the nearest of start and its ancestors that
\* holds one, and raises FileNotFoundError when none up to the root does.
C20_DiscoverTerminates ==
    /\ <>DiscoverDone
    /\ [](DiscoverDone => DiscoverCorrect)

\* The file of an ancestor has been returned, past a nearer directory that
\* holds a directory of that name.
C20_Witness ==
    /\ dpc = "returned"
    /\ dret < Resolved(dstart, dcwd)
    /\ \E l \in (dret + 1)..Resolved(dstart, dcwd) : dtree[l] = "dir"

-----------------------------------------------------------------------------
(* Properties of one pull run: listings, destinations, first pull (under    *)
(* Spec)                                                                    *)

\* Some tracked file of the tree, as the command found it, differs from HEAD.
TrackedChanges0 ==
    \E file \in Paths : head[file] # NoFile /\ fs0[file] # head[file]

\* C22: has_uncommitted_changes(output_root) is true exactly when a tracked
\* file under output_root has uncommitted changes; it is false for a clean
\* tree and false when the only differences are files that are not tracked.
C22_TrackedChangesOnly ==
    \A i \in DOMAIN preChecks : preChecks[i] = TrackedChanges0

\* The item of the listing a decision was taken for.
ItemOf(e) == [res |-> e.res, modified |-> e.modified, body |-> remote[e.res]]

\* C23: resolve is never called with an absent remote time during a pull:
\* every listed resource carries a modified time (the epoch when the API
\* gave none), and every resource decided is one the remote holds, so a
\* local file without a remote counterpart is never decided and the
\* decisions for an absent remote (WARN for a deleted remote, SKIP for
\* nothing on either side) are never taken.
C23_RemoteAlwaysStamped ==
    /\ \A i \in DOMAIN items : items[i].modified # None
    /\ \A i \in DOMAIN log :
          /\ log[i].modified # None
          /\ remote[log[i].res] # Absent
          /\ remote[log[i].res] = None => log[i].modified = EPOCH

C23_Witness ==
    /\ pc = "done"
    /\ \E i \in DOMAIN log : remote[log[i].res] = None /\ log[i].modified = EPOCH
    /\ \E file \in Paths :
          /\ fs0[file] # NoFile
          /\ \A i \in DOMAIN log : log[i].file # file

SetOf(seq) == {seq[i] : i \in DOMAIN seq}

\* C24: in one pull run no file is written more than once, and two distinct
\* listed resources never have a destination file in common.
C24_DistinctDestinations ==
    /\ \A i, j \in DOMAIN written : written[i] = written[j] => i = j
    /\ \A i, j \in DOMAIN log :
          log[i].res # log[j].res =>
              SetOf(WritePaths(log[i].res)) \cap SetOf(WritePaths(log[j].res)) = {}

\* C25: a first pull (no file in the output tree), neither forced nor dry,
\* decides FETCH for every listed resource, and when it is done each
\* destination file holds the content of its resource.
C25_FirstPullFetchesAll ==
    (pc = "done" /\ ~args.force /\ ~args.dry_run
        /\ \A file \in Paths : fs0[file] = NoFile) =>
        \A i \in DOMAIN log :
            /\ log[i].action = FETCH
            /\ \A k \in DOMAIN WritePaths(log[i].res) :
                  fs[WritePaths(log[i].res)[k]] =
                      Rendered(ItemOf(log[i]), WritePaths(log[i].res)[k])

\* C28: a saved query is listed with the epoch as its modified time; when
\* its local file exists and has a commit, a pull without --force decides
\* SKIP for it and leaves the file as it was, whatever the remote state of
\* the saved query.
C28_SavedQueryFrozen ==
    /\ \A i \in DOMAIN log : log[i].res.cat = "saved" => log[i].modified = EPOCH
    /\ \A i \in DOMAIN log :
          (log[i].res.cat = "saved" /\ ~args.force
              /\ fs0[log[i].file] # NoFile /\ GitCommittedTime(log[i].file) # None) =>
              /\ log[i].action = SKIP
              /\ fs[log[i].file] = fs0[log[i].file]

\* A saved query changed remotely after the commit of its file is skipped.
C28_Witness ==
    /\ pc = "done" /\ ~args.force /\ ~args.dry_run
    /\ \E i \in DOMAIN log :
          /\ log[i].res.cat = "saved"
          /\ log[i].action = SKIP
          /\ remote[log[i].res] = MaxTime
          /\ hist[log[i].file] = 0
          /\ fs[log[i].file] = UserContent(0)

\* The files written by the step that is being taken.
NewlyWritten == SetOf(SubSeq(written', Len(written) + 1, Len(written')))

\* C29: for a view or a routine the decision is the one resolve() gives for
\* the SQL file, and the step writes models/<name>.yaml exactly when it
\* writes the SQL file, whether or not the model file exists, and whatever
\* its commit state.
C29_ModelFollowsSql ==
    [][(log' # log /\ LastOf(log').res.cat \in {"views", "routines"}) =>
          LET e     == LastOf(log')
              sql   == IF e.res.cat = "views" THEN ViewSqlPath(e.res.ds, e.res.name)
                       ELSE RoutineSqlPath(e.res.ds, e.res.name)
              model == ModelPath(e.res.ds, e.res.name)
          IN  /\ e.file = sql
              /\ e.action = Resolve(e.modified, sql, e.forced).action
              /\ (sql \in NewlyWritten) <=> (model \in NewlyWritten)
              /\ (sql \in NewlyWritten) <=> (e.action = FETCH /\ ~args.dry_run)
              /\ sql \in NewlyWritten => fs'[model] = Rendered(ItemOf(e), model)
              /\ sql \notin NewlyWritten => fs'[model] = fs[model]]_vars

\* A view was fetched over a model file that existed without a commit.
C29_Witness ==
    /\ \E r \in Resources :
          /\ r.cat = "views"
          /\ ModelPath(r.ds, r.name) \in SetOf(written)
          /\ ViewSqlPath(r.ds, r.name) \in SetOf(written)
          /\ fs0[ModelPath(r.ds, r.name)] # NoFile
          /\ hist[ModelPath(r.ds, r.name)] = None

-----------------------------------------------------------------------------
(* Properties of the printed size (under SpecHumanize) *)

\* C30: for 1024 <= n < 1024^6 the number printed is at least 1.0 and below
\* 1024.0.
C30_BelowNextUnit ==
    (hout # <<>> /\ ~hin.none /\ ~hin.neg
        /\ Len(hin.digits) >= 2 /\ Len(hin.digits) <= 6) =>
        /\ Len(hout[1].whole) = 1
        /\ hout[1].whole[1] >= 1

-----------------------------------------------------------------------------
(* Properties of the dataset option (under SpecScope) *)

\* C21: pull --dataset D goes through the single dataset D: every listing
\* of views, routines, tables and external tables is a listing of D, and
\* every directory of a dataset written into is that of D, whatever the
\* configured list holds, with the project and the output directory of the
\* configuration.
C21_SingleDataset ==
    (spc = "done" /\ sarg.given) =>
        /\ \A i \in DOMAIN scalls :
              /\ scalls[i].cat \in DatasetCats => scalls[i].ds = sarg.value
              /\ scalls[i].project = sconf.project
        /\ \A c \in DatasetCats :
              \E i \in DOMAIN scalls : scalls[i].cat = c /\ scalls[i].ds = sarg.value
        /\ \A w \in swrites :
              /\ w.ds \in {sarg.value, ""}
              /\ w.root = ResolveOutputDir(sconf)

-----------------------------------------------------------------------------
(* Properties of repeated pulls (under SpecRepeat) *)

\* The previous command was a pull without --force and without --dry-run
\* that ran to its end, and the files it wrote were then committed, at a
\* time no earlier than any modification time it was listed.
ConvergedBefore ==
    /\ round >= 2
    /\ prev.pc = "done" /\ ~prev.force /\ ~prev.dry_run
    /\ prev.written # <<>> => prev.commitAt # None
    /\ prev.commitAt # None =>
          \A i \in DOMAIN prev.log : prev.log[i].modified <= prev.commitAt

\* C26 (as first stated): after such a pull and commit, a second pull
\* without --force passes the precondition, decides SKIP for every listed
\* resource and writes no file.
C26_SecondPullSkipsAll ==
    (ConvergedBefore /\ pc # "idle" /\ ~args.force) =>
        /\ preChecks = <<FALSE>>
        /\ \A i \in DOMAIN log : log[i].action = SKIP
        /\ written = <<>>
        /\ fs = fs0

\* C26: after such a pull and commit, a second pull without --force passes
\* the precondition, fetches nothing and writes no file; it decides SKIP
\* for every listed resource whose file has a commit, and WARN for a
\* resource whose file exists without one: a file the first pull did not
\* write, untracked and ignored by git or outside any repository.
C26_SecondPullFetchesNothing ==
    (ConvergedBefore /\ pc # "idle" /\ ~args.force) =>
        /\ preChecks = <<FALSE>>
        /\ written = <<>>
        /\ fs = fs0
        /\ \A i \in DOMAIN log :
              /\ log[i].action \in {SKIP, WARN}
              /\ GitCommittedTime(log[i].file) # None => log[i].action = SKIP
              /\ log[i].action = WARN =>
                    /\ ignored \/ ~gitOK
                    /\ fs0[log[i].file] # NoFile
                    /\ GitCommittedTime(log[i].file) = None
                    /\ log[i].file \notin SetOf(prev.written)

\* A second pull has skipped what the first one fetched and the user
\* committed at the very time of the remote change.
C26_Witness ==
    /\ ConvergedBefore
    /\ pc = "done" /\ ~args.force /\ ~args.dry_run
    /\ prev.written # <<>>
    /\ log # <<>>
    /\ \A i \in DOMAIN log : log[i].action = SKIP
    /\ \E i \in DOMAIN log :
          log[i].file \in SetOf(prev.written) /\ log[i].modified = prev.commitAt

\* The previous command wrote a file, and no commit was made since.
WroteNoCommit ==
    /\ gitOK
    /\ round >= 2
    /\ prev.written # <<>>
    /\ prev.commitAt = None
    /\ ~ignored

\* The command stopped at the precondition.
AbortedAtPrecondition ==
    /\ preChecks = <<TRUE>>
    /\ pc = "exit" /\ exitCode = 1
    /\ listed = <<>> /\ log = <<>> /\ written = <<>>
    /\ fs = fs0

\* C27 (as first stated): in a repository that does not ignore the output
\* files, a pull that follows, without a commit in between, a pull that
\* wrote at least one file stops at the precondition, whatever force is.
C27_SecondPullAborts ==
    (WroteNoCommit /\ pc # "idle") => AbortedAtPrecondition

\* C27: in a repository that does not ignore the output files, a pull that
\* follows, without a commit in between, a pull that wrote at least one
\* file and left the tree different from HEAD (a new file, or a tracked
\* file with new content) stops at the precondition, having listed and
\* written nothing, whatever force is.
C27_DirtyTreeAborts ==
    (WroteNoCommit /\ ~prev.clean /\ pc # "idle") => AbortedAtPrecondition

C27_Witness ==
    /\ WroteNoCommit /\ ~prev.clean
    /\ AbortedAtPrecondition
    /\ args.force
    /\ \E r \in Resources : remote[r] # Absent

====
